---- MODULE Spec2Model ----
(***************************************************************************)
(* Model of the inbound-notification-to-draft pipeline of the email-drafts *)
(* backend: the webhook routes (src/src/routes/webhook.ts), the persistence *)
(* service (src/src/services/database.ts), the Graph gateway and the client *)
(* and OAuth routes the pipeline depends on.                                *)
(*                                                                         *)
(* Every `await` of the code is a suspension point: a request is issued by  *)
(* the step that reaches the call, and its result is consumed by a separate *)
(* "...Return" step, so that detached background tasks interleave exactly   *)
(* at the awaits.  A database call takes effect atomically at its return.   *)
(***************************************************************************)
EXTENDS Integers, Sequences, FiniteSets, TLC

(* ------------------------------ bounds --------------------------------- *)
\* longest notification batch of one POST
MaxBatch == 2
\* most response_templates rows ever created
MaxTemplates == 4
\* most WebhookSubscription rows ever saved
MaxSubs == 2
\* requests of the auth and client routes in flight at the same time
MaxInflight == 2

(* ------------------------- program constants --------------------------- *)
\* res.status(202)
AckStatus == 202
\* no answer sent yet
NoResponse == 0
\* default business-hours window of the dashboard, hours of "09:00"/"17:00"
BusinessStart == 9
BusinessEnd == 17
\* confidences, in hundredths: of a reply without a usable confidence, of a
\* reply whose JSON does not parse, and of the fixed acknowledgment
DefaultConfidence == 70
FallbackConfidence == 60
StubConfidence == 80
\* most templates handed to the prompt
TemplateCap == 3

\* clientState the subscription is created with and the webhook expects
ExpectedClientState == "email-drafts-agent"

(* ---------------------------- universes -------------------------------- *)
\* the two request slots: at most two webhook deliveries are in flight at a
\* time; a slot is reused once its background task has finished
Tasks == {"t1", "t2"}
\* client ids a request may name; a client exists once it is registered
ClientIds == {"c1"}
\* the ids a request path may carry: those, and one no client ever has
RequestClientIds == ClientIds \cup {"nobody"}
\* upstream message ids present in the mailbox
Messages == {"m1", "m2"}
\* sampled hours of the wall clock: before, inside and at the end of the window
ClockHours == {8, 12, 17}

ClientEmail(c) == "owner@example.com"

\* the mailbox content the Graph API serves: m1 comes from a correspondent,
\* m2 was sent by the mailbox owner
MessageSender(m) == IF m = "m2" THEN "owner@example.com" ELSE "alice@example.com"

\* the notifications the upstream source may deliver
Notification(cs, ct, rd) == [clientState |-> cs, changeType |-> ct, resourceData |-> rd]
NoResource == "none"
NotificationKinds ==
    { Notification(ExpectedClientState, "created", "m1"),
      Notification(ExpectedClientState, "created", "m2"),
      Notification("forged", "created", "m1"),
      Notification(ExpectedClientState, "updated", "m1"),
      Notification(ExpectedClientState, "created", NoResource) }
NoNotification == Notification("", "", NoResource)

(* ------------------------------ strings -------------------------------- *)
\* a string is the sequence of its characters
\* the letters String.prototype.toLowerCase changes
UpperCase ==
    <<"A", "B", "C", "D", "E", "F", "G", "H", "I", "J", "K", "L", "M", "N",
      "O", "P", "Q", "R", "S", "T", "U", "V", "W", "X", "Y", "Z">>
\* and what it changes them to
LowerCase ==
    <<"a", "b", "c", "d", "e", "f", "g", "h", "i", "j", "k", "l", "m", "n",
      "o", "p", "q", "r", "s", "t", "u", "v", "w", "x", "y", "z">>

\* String.prototype.toLowerCase
LowerOf == [c \in {UpperCase[k] : k \in 1..Len(UpperCase)} |->
               LowerCase[CHOOSE k \in 1..Len(UpperCase) : UpperCase[k] = c]]
toLowerCase(str) ==
    [i \in 1..Len(str) |-> IF str[i] \in DOMAIN LowerOf THEN LowerOf[str[i]] ELSE str[i]]

\* String.prototype.split on a one-character separator: the pieces between
\* the separators, empty pieces included
RECURSIVE split(_, _)
split(str, sep) ==
    IF \A i \in 1..Len(str) : str[i] # sep
    THEN <<str>>
    ELSE LET first == CHOOSE i \in 1..Len(str) :
                          str[i] = sep /\ \A j \in 1..(i - 1) : str[j] # sep IN
         <<SubSeq(str, 1, first - 1)>> \o split(SubSeq(str, first + 1, Len(str)), sep)

\* String.prototype.trim (of the blanks the model's strings contain)
RECURSIVE trim(_)
trim(str) ==
    IF str = <<>> THEN str
    ELSE IF Head(str) = " " THEN trim(Tail(str))
    ELSE IF str[Len(str)] = " " THEN trim(SubSeq(str, 1, Len(str) - 1))
    ELSE str

\* String.prototype.includes
includes(str, searchString) ==
    \E i \in 0..(Len(str) - Len(searchString)) :
        SubSeq(str, i + 1, i + Len(searchString)) = searchString

\* Array.prototype.slice(0, end)
slice(arr, end) == SubSeq(arr, 1, IF Len(arr) < end THEN Len(arr) ELSE end)

(* ---------------------- templates and test emails ---------------------- *)
\* trigger "meeting,schedule"
TriggerMeeting ==
    <<"m", "e", "e", "t", "i", "n", "g", ",", "s", "c", "h", "e", "d", "u",
      "l", "e">>
\* trigger "pricing"
TriggerPricing ==
    <<"p", "r", "i", "c", "i", "n", "g">>
\* trigger " Call , Demo": blanks around the keywords, capitals
TriggerCall ==
    <<" ", "C", "a", "l", "l", " ", ",", " ", "D", "e", "m", "o">>
Triggers == {TriggerMeeting, TriggerPricing, TriggerCall}

\* the emails the engine is asked about
EmailIds == {"e1", "e2", "e3"}
\* subject "Hello"
SubjectHello ==
    <<"H", "e", "l", "l", "o">>
\* body "Can we schedule a call"
BodySchedule ==
    <<"C", "a", "n", " ", "w", "e", " ", "s", "c", "h", "e", "d", "u", "l",
      "e", " ", "a", " ", "c", "a", "l", "l">>
\* subject "PRICING"
SubjectPricing ==
    <<"P", "R", "I", "C", "I", "N", "G">>
\* body "Send me the list"
BodyList ==
    <<"S", "e", "n", "d", " ", "m", "e", " ", "t", "h", "e", " ", "l", "i",
      "s", "t">>
\* subject "Thanks"
SubjectThanks ==
    <<"T", "h", "a", "n", "k", "s">>
\* body "See you"
BodySeeYou ==
    <<"S", "e", "e", " ", "y", "o", "u">>
EmailSubject(e) ==
    CASE e = "e1" -> SubjectHello [] e = "e2" -> SubjectPricing [] OTHER -> SubjectThanks
EmailBody(e) ==
    CASE e = "e1" -> BodySchedule [] e = "e2" -> BodyList [] OTHER -> BodySeeYou

(* ------------------------- credential codec ---------------------------- *)
\* a stored (encrypted) token is "iv:tag:ciphertext"; the ciphertext of the
\* empty string is empty
NullToken == <<"null">>
encrypt(text) == <<"enc", text>>
\* decrypt throws when one of the three parts is empty
decryptThrows(stored) == stored # NullToken /\ stored[2] = ""
decrypt(stored) == stored[2]

VARIABLES
    clients,      \* clients table: ClientIds -> row
    subs,         \* webhook_subscriptions table: sequence of rows
    emails,       \* emails table: sequence of rows, the row id is the index
    aiResponses,  \* ai_responses table: sequence of rows
    drafts,       \* drafts folder of the mailbox: sequence of replied-to ids
    hour,         \* wall clock, hour of day
    engineUp,     \* whether the Generation Engine answers
    task,         \* Tasks -> the request / background task of a webhook POST
    reply,        \* the last answer of a request/response route, with its request
    templates,    \* response_templates table: sequence of rows in creation order
    engine,       \* the last call of the Generation Engine, with its result
    inflight      \* requests of the auth and client routes that have written or
                  \* read the database and await their next call

vars == <<clients, subs, emails, aiResponses, drafts, hour, engineUp, task,
          reply, templates, engine, inflight>>

NoClient == [exists |-> FALSE, email |-> "", tenantId |-> "",
             accessToken |-> NullToken, refreshToken |-> NullToken,
             tokenExpiry |-> FALSE, aiEnabled |-> TRUE, bhEnabled |-> FALSE]

IdleTask == [pc |-> "idle", response |-> NoResponse, cid |-> "c1", remaining |-> 0,
             cur |-> NoNotification, lookupAi |-> TRUE, emailId |-> 0, draftId |-> 0,
             log |-> "none"]

\* the task of a finished request: its slot is free for the next delivery
DoneTask == [IdleTask EXCEPT !.pc = "done", !.response = AckStatus]

\* no request/response route has answered yet
NoReply == [route |-> "none", token |-> "", status |-> NoResponse, type |-> "", body |-> ""]

\* the Generation Engine has not been called yet
NoCall == [op |-> "none", email |-> "none", relevant |-> <<>>, kind |-> "none",
           text |-> <<>>, failed |-> FALSE, content |-> <<>>, confidence |-> 0,
           templateUsed |-> "undefined",
           date |-> [utcHours |-> 0, minutes |-> 0, summer |-> FALSE, zone |-> "UTC"],
           businessHours |-> [start |-> <<>>, end |-> <<>>, timezone |-> "UTC"],
           within |-> TRUE]

\* a request in flight: its route, the client of its path, the call it
\* awaits, and what it has read so far and will write: whether the client had
\* an access token, the subscriptions still to delete, the email, tenant and
\* businessContext of the row to insert or update, the template id and the
\* trigger and isActive of a template request
Suspended(route, c, stage) ==
    [route |-> route, cid |-> c, stage |-> stage, hasToken |-> FALSE, todo |-> <<>>,
     email |-> "", tenantId |-> "", aiEnabled |-> TRUE, bhEnabled |-> FALSE,
     templateId |-> 0, trigger |-> <<>>, isActive |-> "undefined"]

\* the requests in flight without the i-th, which has answered
Answered(i) == [k \in 1..(Len(inflight) - 1) |->
                   IF k < i THEN inflight[k] ELSE inflight[k + 1]]

\* the businessContext of a request body, as far as it is read back:
\* aiEnabled (absent: true) and aiSettings.businessHours.enabled (absent:
\* false)
BusinessContexts == [aiEnabled : BOOLEAN, bhEnabled : BOOLEAN]

\* an absent or empty businessContext
NoBusinessContext == [aiEnabled |-> NoClient.aiEnabled, bhEnabled |-> NoClient.bhEnabled]

\* the businessContext the dashboard registers a client with
DashboardContext == [aiEnabled |-> TRUE, bhEnabled |-> FALSE]

\* the row createClient inserts: no tokens, the businessContext as given
NewClientRow(email, tenantId, businessContext) ==
    [NoClient EXCEPT !.exists = TRUE, !.email = email, !.tenantId = tenantId,
                     !.aiEnabled = businessContext.aiEnabled,
                     !.bhEnabled = businessContext.bhEnabled]

\* the state once the client has registered with a businessContext of
\* `contexts` and without a tenantId (the route stores 'common'): the row
\* createClient has inserted, every other table empty, no request in flight
InitStore(contexts) ==
    /\ reply = NoReply
    /\ templates = <<>>
    /\ engine = NoCall
    /\ inflight = <<>>
    /\ clients \in { [c \in ClientIds |-> NewClientRow(ClientEmail(c), "common", businessContext)] :
                        businessContext \in contexts }
    /\ subs = <<>>
    /\ emails = <<>>
    /\ aiResponses = <<>>
    /\ drafts = <<>>
    /\ task = [t \in Tasks |-> IdleTask]

\* a client registered from the dashboard
Init ==
    /\ InitStore({DashboardContext})
    /\ hour = 12
    /\ engineUp = TRUE

(* ======================= persistence service =========================== *)

\* DatabaseService.getClientById: the row with its tokens decrypted; decrypt
\* throws on a stored token whose ciphertext is empty
getClientById(c) ==
    LET row == IF c \in ClientIds THEN clients[c] ELSE NoClient IN
    [ threw       |-> row.exists /\ (decryptThrows(row.accessToken)
                                     \/ decryptThrows(row.refreshToken)),
      found       |-> row.exists,
      accessToken |-> IF row.accessToken = NullToken THEN "" ELSE decrypt(row.accessToken),
      refreshToken |-> IF row.refreshToken = NullToken THEN "" ELSE decrypt(row.refreshToken),
      email       |-> row.email,
      aiEnabled   |-> row.aiEnabled,
      bhEnabled   |-> row.bhEnabled ]

\* (mutant) the table without its unique index
NoUniqueIndex(m) == FALSE

\* unique index emails_microsoftId_key
EmailUniqueViolation(m) == \E i \in 1..Len(emails) : emails[i].microsoftId = m

\* the row prisma.email.create inserts: status takes the column default
NewEmailRow(m, c) == [microsoftId |-> m, clientId |-> c, status |-> "RECEIVED"]

\* (mutant) the PROCESSING write is lost
updateEmailStatusSkipsProcessing(emailId, status) ==
    IF status = "PROCESSING" THEN emails ELSE [emails EXCEPT ![emailId].status = status]

\* DatabaseService.updateEmailStatus: the table after the update
updateEmailStatus(emailId, status) == [emails EXCEPT ![emailId].status = status]

\* (mutant) the row is keyed by something that is not the id of a saved Email
NewAIResponseRowDangling(emailId, draftId) ==
    [emailId |-> 0, draftId |-> draftId, confidence |-> StubConfidence,
     templateUsed |-> "simple_acknowledgment"]

\* (mutant) the draft id is not passed on
NewAIResponseRowWithoutDraft(emailId, draftId) ==
    [emailId |-> emailId, draftId |-> 0, confidence |-> StubConfidence,
     templateUsed |-> "simple_acknowledgment"]

\* the row DatabaseService.saveAIResponse inserts
NewAIResponseRow(emailId, draftId) ==
    [emailId |-> emailId, draftId |-> draftId, confidence |-> StubConfidence,
     templateUsed |-> "simple_acknowledgment"]

\* the responseTemplates that getClientById includes (lines 81-85): the active
\* templates of the client; the query has no orderBy, so the order is the
\* database's: of the orders it may produce the model takes the two extremes,
\* the rows as stored (creation order) and the reverse
IncludedResponseTemplates(c) ==
    LET Active(row) == row.clientId = c /\ row.isActive
        rows == SelectSeq(templates, Active) IN
    { rows, [i \in 1..Len(rows) |-> rows[Len(rows) + 1 - i]] }

\* DatabaseService.getResponseTemplates: the active templates of the client,
\* createdAt descending
getResponseTemplates(c) ==
    LET Active(row) == row.clientId = c /\ row.isActive
        rows == SelectSeq(templates, Active) IN
    [i \in 1..Len(rows) |-> rows[Len(rows) + 1 - i]]

(* ========================= client routes =============================== *)

\* PUT /api/client/profile/:clientId up to the await of client.update: the
\* client is looked up (404 without it, 500 when the lookup throws: nothing
\* is written) and the update is issued with the businessContext of the body
\* (hasContext), which replaces the stored one as a whole, or, without one in
\* the body, with the businessContext the lookup has just read
UpdateProfile(c, hasContext, businessContext) ==
    LET client == getClientById(c) IN
    /\ Len(inflight) < MaxInflight
    /\ client.found /\ ~client.threw
    /\ inflight' = Append(inflight,
           [Suspended("profile", c, "update") EXCEPT
               !.aiEnabled = IF hasContext THEN businessContext.aiEnabled
                             ELSE client.aiEnabled,
               !.bhEnabled = IF hasContext THEN businessContext.bhEnabled
                             ELSE client.bhEnabled])
    /\ UNCHANGED <<clients, subs, emails, aiResponses, drafts, hour, engineUp, task,
                   reply, templates, engine>>

\* the profile route resumes: client.update returns and the row holds the
\* businessContext of the request, or throws (ok: it succeeds) and nothing
\* is written
UpdateProfileReturn(i, ok) ==
    LET r == inflight[i] IN
    /\ i \in 1..Len(inflight)
    /\ r.route = "profile"
    /\ clients' = IF ok /\ clients[r.cid].exists
                  THEN [clients EXCEPT ![r.cid].aiEnabled = r.aiEnabled,
                                       ![r.cid].bhEnabled = r.bhEnabled]
                  ELSE clients
    /\ inflight' = Answered(i)
    /\ UNCHANGED <<subs, emails, aiResponses, drafts, hour, engineUp, task, reply,
                   templates, engine>>

\* dashboard toggleAIEnabled: the profile route with businessContext
\* {aiEnabled}; the aiSettings (business hours) are dropped and fall back to
\* their defaults
ToggleAIEnabled(c, enabled) ==
    UpdateProfile(c, TRUE, [aiEnabled |-> enabled, bhEnabled |-> FALSE])

\* dashboard updateAISettings: the profile route with businessContext
\* {aiSettings}; aiEnabled is dropped and reads as true
UpdateAISettings(c, bh) ==
    UpdateProfile(c, TRUE, [aiEnabled |-> TRUE, bhEnabled |-> bh])

\* POST /api/client/templates/:clientId up to the await of
\* createResponseTemplate: 400 without a trigger, 404 without the client, 500
\* when the lookup throws; otherwise the insert is issued
CreateTemplate(c, trigger) ==
    LET client == getClientById(c) IN
    /\ Len(inflight) < MaxInflight
    /\ trigger # <<>>
    /\ client.found /\ ~client.threw
    /\ inflight' = Append(inflight,
           [Suspended("createTemplate", c, "insert") EXCEPT !.trigger = trigger])
    /\ UNCHANGED <<clients, subs, emails, aiResponses, drafts, hour, engineUp, task,
                   reply, templates, engine>>

\* createResponseTemplate returns: the new row is active and the most
\* recently created; when the insert throws (ok: it succeeds) there is no row
CreateTemplateReturn(i, ok) ==
    LET r == inflight[i] IN
    /\ i \in 1..Len(inflight)
    /\ r.route = "createTemplate"
    /\ ok => Len(templates) < MaxTemplates
    /\ templates' = IF ok
                    THEN Append(templates, [id |-> Len(templates) + 1, clientId |-> r.cid,
                                            trigger |-> r.trigger, isActive |-> TRUE])
                    ELSE templates
    /\ inflight' = Answered(i)
    /\ UNCHANGED <<clients, subs, emails, aiResponses, drafts, hour, engineUp, task,
                   reply, engine>>

\* the isActive of the body of a template update
TemplateActive == {"true", "false", "undefined"}

\* PUT /api/client/templates/:clientId/:templateId with {trigger, isActive},
\* up to the await of responseTemplate.update: the client is looked up (404,
\* 500) and the update is issued
UpdateTemplate(c, templateId, trigger, isActive) ==
    LET client == getClientById(c) IN
    /\ Len(inflight) < MaxInflight
    /\ client.found /\ ~client.threw
    /\ inflight' = Append(inflight,
           [Suspended("updateTemplate", c, "update") EXCEPT
               !.templateId = templateId, !.trigger = trigger, !.isActive = isActive])
    /\ UNCHANGED <<clients, subs, emails, aiResponses, drafts, hour, engineUp, task,
                   reply, templates, engine>>

\* responseTemplate.update returns: an empty trigger and an undefined
\* isActive leave the column as it is; the update throws (500) when the
\* client has no row with the id, or when the database rejects it
UpdateTemplateReturn(i, ok) ==
    LET r == inflight[i] IN
    /\ i \in 1..Len(inflight)
    /\ r.route = "updateTemplate"
    /\ templates' =
          IF ok /\ r.templateId \in 1..Len(templates)
                /\ templates[r.templateId].clientId = r.cid
          THEN [templates EXCEPT
                   ![r.templateId].trigger = IF r.trigger # <<>> THEN r.trigger ELSE @,
                   ![r.templateId].isActive = IF r.isActive = "undefined" THEN @
                                              ELSE r.isActive = "true"]
          ELSE templates
    /\ inflight' = Answered(i)
    /\ UNCHANGED <<clients, subs, emails, aiResponses, drafts, hour, engineUp, task,
                   reply, engine>>

\* DELETE /api/client/templates/:clientId/:templateId up to the await of
\* responseTemplate.update: the client is looked up (404, 500) and the soft
\* delete is issued
DeleteTemplate(c, templateId) ==
    LET client == getClientById(c) IN
    /\ Len(inflight) < MaxInflight
    /\ client.found /\ ~client.threw
    /\ inflight' = Append(inflight,
           [Suspended("deleteTemplate", c, "update") EXCEPT !.templateId = templateId])
    /\ UNCHANGED <<clients, subs, emails, aiResponses, drafts, hour, engineUp, task,
                   reply, templates, engine>>

\* the soft delete returns: the row is set inactive; the update throws (500)
\* when the client has no row with the id, or when the database rejects it
DeleteTemplateReturn(i, ok) ==
    LET r == inflight[i] IN
    /\ i \in 1..Len(inflight)
    /\ r.route = "deleteTemplate"
    /\ templates' =
          IF ok /\ r.templateId \in 1..Len(templates)
                /\ templates[r.templateId].clientId = r.cid
          THEN [templates EXCEPT ![r.templateId].isActive = FALSE]
          ELSE templates
    /\ inflight' = Answered(i)
    /\ UNCHANGED <<clients, subs, emails, aiResponses, drafts, hour, engineUp, task,
                   reply, engine>>

(* =========================== OAuth routes ============================== *)

\* the calls of the callback that may fail, up to updateClientTokens and
\* after it (none: all succeed)
CallbackStops == {"exchange", "profile", "updateTokens", "none"}
SubscriptionStops == {"createSub", "saveSub", "none"}

\* GET /api/auth/microsoft/callback up to the await of
\* createWebhookSubscription: exchange the code, read the profile, store the
\* tokens; `stop` is the call that fails (500, nothing written; so does the
\* update for an unknown client), hasAccount whether MSAL returned an account
OAuthCallback(c, stop, hasAccount) ==
    /\ Len(inflight) < MaxInflight
    /\ stop = "none"
    /\ c \in DOMAIN clients /\ clients[c].exists
    /\ clients' = [clients EXCEPT
                      ![c].accessToken = encrypt("tok"),
                      ![c].refreshToken = encrypt(IF hasAccount THEN "acct" ELSE ""),
                      ![c].tokenExpiry = TRUE]
    /\ inflight' = Append(inflight, Suspended("callback", c, "createSub"))
    /\ UNCHANGED <<subs, emails, aiResponses, drafts, hour, engineUp, task, reply,
                   templates, engine>>

\* the callback resumes: createWebhookSubscription returns and the
\* subscription is saved (200), or one of the two calls throws (500)
OAuthCallbackSubscription(i, stop) ==
    /\ i \in 1..Len(inflight)
    /\ inflight[i].route = "callback"
    /\ stop = "none" => Len(subs) < MaxSubs
    /\ subs' = IF stop = "none"
               THEN Append(subs, [clientId |-> inflight[i].cid,
                                  subscriptionId |-> Len(subs) + 1, isActive |-> TRUE])
               ELSE subs
    /\ inflight' = Answered(i)
    /\ UNCHANGED <<clients, emails, aiResponses, drafts, hour, engineUp, task, reply,
                   templates, engine>>

\* the answer of a route of the auth router
AuthReply(route, status) ==
    [route |-> route, token |-> "", status |-> status, type |-> "application/json",
     body |-> ""]

\* POST /api/auth/microsoft/refresh/:clientId: 500 when the lookup throws (ok:
\* the database answers), 404 without a client or a refresh token;
\* MicrosoftGraphService.refreshToken always throws, so the stored tokens are
\* never replaced
Refresh(c, ok) ==
    LET client == getClientById(c) IN
    /\ reply' = IF ~ok \/ client.threw THEN AuthReply("refresh", 500)
                ELSE IF ~client.found \/ client.refreshToken = ""
                     THEN AuthReply("refresh", 404)
                     ELSE AuthReply("refresh", 500)
    /\ UNCHANGED <<clients, subs, emails, aiResponses, drafts, hour, engineUp, task,
                   templates, engine, inflight>>

\* POST /api/auth/microsoft/disconnect/:clientId, the client lookup: 500 when
\* it throws (ok: the database answers), 404 without the client; otherwise
\* the request goes on to read the active subscriptions
Disconnect(c, ok) ==
    LET client == getClientById(c) IN
    IF ~ok \/ client.threw
    THEN /\ reply' = AuthReply("disconnect", 500)
         /\ UNCHANGED <<clients, subs, emails, aiResponses, drafts, hour, engineUp, task,
                        templates, engine, inflight>>
    ELSE IF ~client.found
    THEN /\ reply' = AuthReply("disconnect", 404)
         /\ UNCHANGED <<clients, subs, emails, aiResponses, drafts, hour, engineUp, task,
                        templates, engine, inflight>>
    ELSE /\ Len(inflight) < MaxInflight
         /\ inflight' = Append(inflight,
                [Suspended("disconnect", c, "list") EXCEPT
                    !.hasToken = client.accessToken # ""])
         /\ UNCHANGED <<clients, subs, emails, aiResponses, drafts, hour, engineUp, task,
                        reply, templates, engine>>

\* disconnect, line 184: getActiveWebhookSubscriptions returns the rows
\* active now, of which the loop handles those of the client if it had an
\* access token; a throw answers 500
DisconnectList(i, ok) ==
    LET r == inflight[i]
        Mine(row) == row.isActive /\ row.clientId = r.cid /\ r.hasToken
        rows == SelectSeq(subs, Mine) IN
    /\ i \in 1..Len(inflight)
    /\ r.route = "disconnect" /\ r.stage = "list"
    /\ IF ok
       THEN /\ inflight' = [inflight EXCEPT ![i].stage = "loop",
                               ![i].todo = [k \in 1..Len(rows) |-> rows[k].subscriptionId]]
            /\ reply' = reply
       ELSE /\ inflight' = Answered(i)
            /\ reply' = AuthReply("disconnect", 500)
    /\ UNCHANGED <<clients, subs, emails, aiResponses, drafts, hour, engineUp, task,
                   templates, engine>>

\* disconnect, lines 185-197: one iteration of the loop: the subscription is
\* deleted upstream and then deactivated; when either call throws (deleted,
\* ok: the call succeeds) the error is logged and the row stays as it is
DisconnectSubscription(i, deleted, ok) ==
    LET r == inflight[i] IN
    /\ i \in 1..Len(inflight)
    /\ r.route = "disconnect" /\ r.stage = "loop" /\ r.todo # <<>>
    /\ subs' = IF deleted /\ ok
               THEN [subs EXCEPT ![Head(r.todo)].isActive = FALSE]
               ELSE subs
    /\ inflight' = [inflight EXCEPT ![i].todo = Tail(r.todo)]
    /\ UNCHANGED <<clients, emails, aiResponses, drafts, hour, engineUp, task, reply,
                   templates, engine>>

\* disconnect, lines 200-205: the tokens are overwritten with the encryption
\* of the empty string and the route answers 200; 500 when the update throws
DisconnectTokens(i, ok) ==
    LET r == inflight[i] IN
    /\ i \in 1..Len(inflight)
    /\ r.route = "disconnect" /\ r.stage = "loop" /\ r.todo = <<>>
    /\ clients' = IF ok
                  THEN [clients EXCEPT ![r.cid].accessToken = encrypt(""),
                                       ![r.cid].refreshToken = encrypt(""),
                                       ![r.cid].tokenExpiry = TRUE]
                  ELSE clients
    /\ reply' = AuthReply("disconnect", IF ok THEN 200 ELSE 500)
    /\ inflight' = Answered(i)
    /\ UNCHANGED <<subs, emails, aiResponses, drafts, hour, engineUp, task,
                   templates, engine>>

(* ============================ environment ============================== *)

\* the wall clock moves to another sampled hour
Tick(h) ==
    /\ h # hour
    /\ hour' = h
    /\ UNCHANGED <<clients, subs, emails, aiResponses, drafts, engineUp, task, reply, templates, engine,
                   inflight>>

(* ======================== generation service =========================== *)

\* (mutant) the triggers and the text are compared as written
KeepCase(str) == str

\* the lower-casing of findRelevantTemplates (lines 552 and 557)
NormalizeCase(str) == toLowerCase(str)

\* the filter of findRelevantTemplates, lines 554-558: some trimmed keyword
\* of the lower-cased trigger is contained in the email text
TemplateHits(template, emailText) ==
    /\ template.trigger # <<>>
    /\ LET pieces == split(NormalizeCase(template.trigger), ",") IN
       \E k \in 1..Len(pieces) : includes(emailText, trim(pieces[k]))

\* ClaudeAIService.findRelevantTemplates
findRelevantTemplates(tpls, subject, body) ==
    IF tpls = <<>> THEN <<>>
    ELSE LET emailText == NormalizeCase(subject \o <<" ">> \o body)
             Test(template) == TemplateHits(template, emailText) IN
         slice(SelectSeq(tpls, Test), TemplateCap)

\* the replies of the model, as sequences of lexical pieces: "{", "}", ",",
\* " " (blank), "w" (a word of prose) and the members of the JSON object
\*   "er"    "emailResponse":"Hi"       "er0"   "emailResponse":""
\*   "c85"   "confidence":0.85          "c150"  "confidence":1.5
\*   "c-100" "confidence":-1            "c0"    "confidence":0
\*   "tu"    "templateUsed":"Pricing"   "rs"    "reasoning":"ok"
Members == {"er", "er0", "c85", "c150", "c-100", "c0", "tu", "rs"}
ModelReplies ==
    { <<>>,
      <<"w", " ", "w">>,
      <<" ", "w", " ">>,
      <<"}", "w", "{">>,
      <<"{", "}">>,
      <<"{", "w", "}">>,
      <<"{", "er", ",", "}">>,
      <<"{", "er", ",", " ", "c85", "}">>,
      <<"{", "er0", ",", "c0", ",", "rs", "}">>,
      <<"{", "c-100", "}">>,
      <<"w", " ", "{", "er", ",", "c150", ",", "tu", "}", " ", "w">>,
      <<"{", "er", "}", " ", "{", "c85", "}">> }

\* responseText.match(/\{[\s\S]*\}/): from the first "{" to the last "}"
jsonMatch(responseText) ==
    LET opens == {i \in 1..Len(responseText) : responseText[i] = "{"}
        closes == {i \in 1..Len(responseText) : responseText[i] = "}"}
        first == CHOOSE i \in opens : \A j \in opens : i <= j
        last == CHOOSE i \in closes : \A j \in closes : j <= i IN
    IF opens = {} \/ closes = {} THEN <<>>
    ELSE IF first < last THEN SubSeq(responseText, first, last) ELSE <<>>

\* what is between the braces of the match, blanks dropped
ObjectBody(matched) ==
    LET NotBlank(piece) == piece # " " IN
    SelectSeq(SubSeq(matched, 2, Len(matched) - 1), NotBlank)

\* JSON.parse accepts an object of members separated by commas
JsonParses(matched) ==
    LET inner == ObjectBody(matched) IN
    \/ inner = <<>>
    \/ /\ Len(inner) % 2 = 1
       /\ \A i \in 1..Len(inner) :
             IF i % 2 = 1 THEN inner[i] \in Members ELSE inner[i] = ","

\* the value of a key of the parsed object: that of its last member
LastMember(matched, keyMembers) ==
    LET inner == ObjectBody(matched)
        at == {i \in 1..Len(inner) : inner[i] \in keyMembers} IN
    IF at = {} THEN "absent"
    ELSE inner[CHOOSE i \in at : \A j \in at : j <= i]
ParsedEmailResponse(matched) ==
    IF LastMember(matched, {"er", "er0"}) = "er" THEN <<"Hi">> ELSE <<>>
ParsedConfidence(matched) ==
    LET member == LastMember(matched, {"c85", "c150", "c-100", "c0"}) IN
    CASE member = "c85" -> 85 [] member = "c150" -> 150 [] member = "c-100" -> -100
      [] OTHER -> 0
ParsedTemplateUsed(matched) ==
    IF LastMember(matched, {"tu"}) = "tu" THEN "Pricing" ELSE "undefined"

\* the result of a failed call: the promise is rejected
GenerationFailed ==
    [failed |-> TRUE, content |-> <<>>, confidence |-> 0, templateUsed |-> "undefined"]

\* (mutant) a reply that is not well-formed JSON is an error
parseAIResponseStrict(responseText) ==
    LET matched == jsonMatch(responseText) IN
    IF matched = <<>> \/ ~JsonParses(matched)
    THEN GenerationFailed
    ELSE [failed |-> FALSE,
          content |-> IF ParsedEmailResponse(matched) # <<>>
                      THEN ParsedEmailResponse(matched) ELSE trim(responseText),
          confidence |-> IF ParsedConfidence(matched) # 0
                         THEN ParsedConfidence(matched) ELSE DefaultConfidence,
          templateUsed |-> ParsedTemplateUsed(matched)]

\* ClaudeAIService.parseAIResponse
parseAIResponse(responseText) ==
    LET matched == jsonMatch(responseText) IN
    IF matched = <<>>
    THEN [failed |-> FALSE, content |-> trim(responseText),
          confidence |-> DefaultConfidence, templateUsed |-> "undefined"]
    ELSE IF ~JsonParses(matched)
    THEN [failed |-> FALSE, content |-> trim(responseText),
          confidence |-> FallbackConfidence, templateUsed |-> "undefined"]
    ELSE [failed |-> FALSE,
          content |-> IF ParsedEmailResponse(matched) # <<>>
                      THEN ParsedEmailResponse(matched) ELSE trim(responseText),
          confidence |-> IF ParsedConfidence(matched) # 0
                         THEN ParsedConfidence(matched) ELSE DefaultConfidence,
          templateUsed |-> ParsedTemplateUsed(matched)]

\* what anthropic.messages.create may do: reject (network, authentication),
\* answer without a text block, or answer with a text
ModelOutcomes ==
    {[kind |-> "error", text |-> <<>>], [kind |-> "no text", text |-> <<>>]}
        \cup {[kind |-> "text", text |-> r] : r \in ModelReplies}

\* ClaudeAIService.generateEmailResponse, lines 404-430
generateEmailResponse(outcome) ==
    IF outcome.kind = "text" THEN parseAIResponse(outcome.text) ELSE GenerationFailed

\* ClaudeAIService.isWithinBusinessHours on the hours of start and end
isWithinBusinessHours(h, startHour, endHour) == h >= startHour /\ h < endHour

\* the time zones of the model and their offsets from UTC, in hours, in
\* winter and in summer (daylight saving time)
Zones == {"UTC", "America/New_York"}
ZoneOffset == [z \in Zones, summer \in BOOLEAN |->
                  IF z = "UTC" THEN 0 ELSE IF summer THEN -4 ELSE -5]

\* a Date: an instant (hour and minute of the day in UTC, on a day of summer
\* or of winter) in a process whose local time zone is `zone`
UtcHours == {9, 13, 14, 17, 21, 22}
Minutes == {0, 15, 45}
Dates == [utcHours : UtcHours, minutes : Minutes, summer : BOOLEAN, zone : Zones]

\* Date.prototype.getHours: the hour of the day in the local time zone of
\* the process
getHours(date) == (date.utcHours + ZoneOffset[date.zone, date.summer] + 24) % 24

\* the businessHours settings the dashboard can store: start and end as
\* "HH:MM" (start may be left empty) and the time zone of the client
TimeStart == { <<>>, <<"0", "9", ":", "0", "0">>, <<"0", "9", ":", "3", "0">> }
TimeEnd == { <<"1", "7", ":", "0", "0">>, <<"1", "7", ":", "3", "0">> }
BusinessHoursSettings == [start : TimeStart, end : TimeEnd, timezone : Zones]

\* the value of a string of decimal digits
DigitValue ==
    [d \in {"0", "1", "2", "3", "4", "5", "6", "7", "8", "9"} |->
        CASE d = "0" -> 0 [] d = "1" -> 1 [] d = "2" -> 2 [] d = "3" -> 3
          [] d = "4" -> 4 [] d = "5" -> 5 [] d = "6" -> 6 [] d = "7" -> 7
          [] d = "8" -> 8 [] d = "9" -> 9]
RECURSIVE DecimalValue(_)
DecimalValue(digits) ==
    IF digits = <<>> THEN 0
    ELSE 10 * DecimalValue(SubSeq(digits, 1, Len(digits) - 1))
            + DigitValue[digits[Len(digits)]]

\* parseInt: the value of the longest prefix of digits, NaN without one
parseInt(str) ==
    LET n == CHOOSE k \in 0..Len(str) :
                 /\ \A i \in 1..k : str[i] \in DOMAIN DigitValue
                 /\ k < Len(str) => str[k + 1] \notin DOMAIN DigitValue IN
    [nan |-> n = 0, value |-> DecimalValue(SubSeq(str, 1, n))]

\* ClaudeAIService.isWithinBusinessHours(date, businessHours), lines 562-576:
\* true without a start or an end; otherwise the local hour of the process
\* against the hours parsed from start and end (a comparison with NaN is
\* false)
IsWithinBusinessHours(date, businessHours) ==
    LET startHour == parseInt(split(businessHours.start, ":")[1])
        endHour == parseInt(split(businessHours.end, ":")[1])
        result == IF businessHours.start = <<>> \/ businessHours.end = <<>>
                  THEN TRUE
                  ELSE /\ ~startHour.nan /\ ~endHour.nan
                       /\ isWithinBusinessHours(getHours(date), startHour.value,
                                                endHour.value) IN
    /\ engine' = [NoCall EXCEPT !.op = "isWithinBusinessHours", !.date = date,
                                !.businessHours = businessHours, !.within = result]
    /\ UNCHANGED <<clients, subs, emails, aiResponses, drafts, hour, engineUp, task,
                   reply, templates, inflight>>

\* the templates of a workspace: what one of the two reads of the Policy
\* Store returns for the client, the template query or the client lookup
WorkspaceTemplates(c) == {getResponseTemplates(c)} \cup IncludedResponseTemplates(c)

\* buildUserPrompt, line 500: the relevant templates of the prompt for email
\* e, out of the templates of the workspace
BuildUserPrompt(e, workspaceTemplates) ==
    LET relevant == findRelevantTemplates(workspaceTemplates,
                                          EmailSubject(e), EmailBody(e)) IN
    /\ engine' = [NoCall EXCEPT !.op = "buildUserPrompt", !.email = e,
                                !.relevant = [k \in 1..Len(relevant) |-> relevant[k].id]]
    /\ UNCHANGED <<clients, subs, emails, aiResponses, drafts, hour, engineUp, task,
                   reply, templates, inflight>>

\* a call of generateEmailResponse; the model call is rejected exactly when
\* the engine is down
GenerateEmailResponse(outcome) ==
    LET result == generateEmailResponse(outcome) IN
    /\ outcome.kind = "error" <=> ~engineUp
    /\ engine' = [NoCall EXCEPT !.op = "generateEmailResponse",
                                !.kind = outcome.kind, !.text = outcome.text,
                                !.failed = result.failed, !.content = result.content,
                                !.confidence = result.confidence,
                                !.templateUsed = result.templateUsed]
    /\ UNCHANGED <<clients, subs, emails, aiResponses, drafts, hour, engineUp, task,
                   reply, templates, inflight>>

(* ========================== Graph gateway ============================== *)

\* (mutant) every clientState is accepted
AcceptAnyClientState(clientState) == TRUE

\* MicrosoftGraphService.validateWebhookNotification
validateWebhookNotification(clientState) == clientState = ExpectedClientState

(* ========================== webhook routes ============================= *)

\* the validation tokens a GET may carry; the empty one stands for a request
\* without the query parameter
ValidationTokens == {"", "tokA", "tokB"}

\* (mutant) the token is acknowledged instead of echoed
ValidationGetAcknowledges(c, validationToken) ==
    /\ reply' = IF validationToken # ""
                THEN [route |-> "validation", token |-> validationToken, status |-> 200,
                      type |-> "text/plain", body |-> "ok"]
                ELSE [route |-> "validation", token |-> validationToken, status |-> 400,
                      type |-> "application/json", body |-> "Missing validation token"]
    /\ UNCHANGED <<clients, subs, emails, aiResponses, drafts, hour, engineUp, task,
                   templates, engine, inflight>>

\* router.get('/microsoft/:clientId'): the subscription validation handshake
ValidationGet(c, validationToken) ==
    /\ reply' = IF validationToken # ""
                THEN [route |-> "validation", token |-> validationToken, status |-> 200,
                      type |-> "text/plain", body |-> validationToken]
                ELSE [route |-> "validation", token |-> validationToken, status |-> 400,
                      type |-> "application/json", body |-> "Missing validation token"]
    /\ UNCHANGED <<clients, subs, emails, aiResponses, drafts, hour, engineUp, task,
                   templates, engine, inflight>>

\* (mutant) the answer is left to the end of processing
AcknowledgeLater(tk) == tk

\* router.post('/microsoft/:clientId'), line 31: the answer of the request
Acknowledge(tk) == [tk EXCEPT !.response = AckStatus]

\* (mutant) the changeType is not looked at
AnyNotificationWithResource(n) == n.resourceData # NoResource

\* line 60: only new-email notifications carrying resource data are processed
IsNewEmailNotification(n) == n.changeType = "created" /\ n.resourceData # NoResource

\* (mutant) a failed notification ends the whole batch
ResumeUnlessFailed(tk) ==
    IF tk.remaining = 0 \/ tk.log \notin {"none", "draft created", "own email skipped"}
    THEN DoneTask
    ELSE [tk EXCEPT !.pc = "loop", !.emailId = 0, !.draftId = 0]

\* where a task continues after the current notification: the next iteration
\* of the for loop, or the end of processNotificationsAsync
Resume(tk) ==
    IF tk.remaining = 0
    THEN DoneTask
    ELSE [tk EXCEPT !.pc = "loop", !.emailId = 0, !.draftId = 0]

\* POST /api/webhook/microsoft/:clientId with a batch of n notifications: the
\* handler answers and calls processNotificationsAsync without awaiting it,
\* which runs up to its first await (the client lookup)
Post(t, c, n) ==
    /\ task[t].pc \in {"idle", "done"}
    /\ task' = [task EXCEPT ![t] =
                   [Acknowledge(IdleTask) EXCEPT !.pc = "getClient", !.cid = c,
                                                  !.remaining = n]]
    /\ UNCHANGED <<clients, subs, emails, aiResponses, drafts, hour, engineUp, reply, templates, engine,
                   inflight>>

\* processNotificationsAsync, lines 45-49: the lookup returns; a thrown lookup
\* is caught at line 69, a missing client or credential returns
GetClientReturn(t, ok) ==
    LET tk == task[t]
        client == getClientById(tk.cid) IN
    /\ tk.pc = "getClient"
    /\ task' = [task EXCEPT ![t] =
                   IF ~ok \/ client.threw \/ ~client.found \/ client.accessToken = ""
                   THEN DoneTask
                   ELSE Resume([tk EXCEPT !.lookupAi = client.aiEnabled])]
    /\ UNCHANGED <<clients, subs, emails, aiResponses, drafts, hour, engineUp, reply, templates, engine,
                   inflight>>

\* (mutant) processNewEmail is called without await: the loop goes on to the
\* next notification while the calls of the previous one are pending
TakeNotificationDetached(t, n) ==
    LET tk == task[t]
        taken == [tk EXCEPT !.cur = n, !.remaining = tk.remaining - 1,
                            !.emailId = 0, !.draftId = 0, !.log = "none"] IN
    /\ tk.pc \notin {"idle", "getClient", "done"}
    /\ tk.remaining > 0
    /\ task' = [task EXCEPT ![t] =
                   IF ~validateWebhookNotification(n.clientState)
                   THEN Resume([taken EXCEPT !.log = "invalid client state"])
                   ELSE IF IsNewEmailNotification(n)
                        THEN [taken EXCEPT !.pc = "fetch"]
                        ELSE Resume(taken)]
    /\ UNCHANGED <<clients, subs, emails, aiResponses, drafts, hour, engineUp, reply, templates, engine,
                   inflight>>

\* lines 51-62: one iteration of the for loop over the batch, up to the next
\* await: an invalid or ineligible notification is passed over, an eligible
\* one enters processNewEmail, which issues the message fetch
TakeNotification(t, n) ==
    LET tk == task[t]
        taken == [tk EXCEPT !.cur = n, !.remaining = tk.remaining - 1,
                            !.emailId = 0, !.draftId = 0, !.log = "none"] IN
    /\ tk.pc = "loop"
    /\ tk.remaining > 0
    /\ task' = [task EXCEPT ![t] =
                   IF ~validateWebhookNotification(n.clientState)
                   THEN Resume([taken EXCEPT !.log = "invalid client state"])
                   ELSE IF IsNewEmailNotification(n)
                        THEN [taken EXCEPT !.pc = "fetch"]
                        ELSE Resume(taken)]
    /\ UNCHANGED <<clients, subs, emails, aiResponses, drafts, hour, engineUp, reply, templates, engine,
                   inflight>>

\* processNewEmail, line 80: getEmailById returns or throws (caught at 104);
\* on success saveEmail is issued
FetchReturn(t, ok) ==
    LET tk == task[t] IN
    /\ tk.pc = "fetch"
    /\ task' = [task EXCEPT ![t] =
                   IF ok THEN [tk EXCEPT !.pc = "saveEmail"]
                   ELSE Resume([tk EXCEPT !.log = "fetch failed"])]
    /\ UNCHANGED <<clients, subs, emails, aiResponses, drafts, hour, engineUp, reply, templates, engine,
                   inflight>>

\* (mutant) saveEmail written as an upsert: a redelivered message resets its
\* row and is processed again
SaveEmailUpserts(t, ok) ==
    LET tk == task[t]
        m == tk.cur.resourceData
        old == CHOOSE i \in 1..Len(emails) : emails[i].microsoftId = m IN
    /\ tk.pc = "saveEmail"
    /\ IF ok /\ \E i \in 1..Len(emails) : emails[i].microsoftId = m
       THEN /\ emails' = [emails EXCEPT ![old].status = "RECEIVED"]
            /\ task' = [task EXCEPT ![t] =
                           [tk EXCEPT !.pc = "updProcessing", !.emailId = old]]
       ELSE IF ok
            THEN /\ emails' = Append(emails, NewEmailRow(m, tk.cid))
                 /\ task' = [task EXCEPT ![t] =
                                [tk EXCEPT !.pc = "updProcessing",
                                           !.emailId = Len(emails) + 1]]
            ELSE /\ emails' = emails
                 /\ task' = [task EXCEPT ![t] = Resume([tk EXCEPT !.log = "save failed"])]
    /\ UNCHANGED <<clients, subs, aiResponses, drafts, hour, engineUp, reply, templates, engine,
                   inflight>>

\* (mutant) the unique-index error of saveEmail is swallowed and the run goes
\* on with the row that exists
SaveEmailIgnoresDuplicate(t, ok) ==
    LET tk == task[t]
        m == tk.cur.resourceData IN
    /\ tk.pc = "saveEmail"
    /\ IF ok /\ ~EmailUniqueViolation(m)
       THEN /\ emails' = Append(emails, NewEmailRow(m, tk.cid))
            /\ task' = [task EXCEPT ![t] =
                           [tk EXCEPT !.pc = "updProcessing", !.emailId = Len(emails) + 1]]
       ELSE /\ emails' = emails
            /\ task' = [task EXCEPT ![t] =
                           IF ok
                           THEN [tk EXCEPT !.pc = "getClient2",
                                           !.emailId = CHOOSE i \in 1..Len(emails) :
                                                           emails[i].microsoftId = m]
                           ELSE Resume([tk EXCEPT !.log = "save failed"])]
    /\ UNCHANGED <<clients, subs, aiResponses, drafts, hour, engineUp, reply, templates, engine,
                   inflight>>

\* line 83: saveEmail returns the new row, or throws on a database error or
\* on the unique index of microsoftId (caught at 104)
SaveEmailReturn(t, ok) ==
    LET tk == task[t]
        m == tk.cur.resourceData IN
    /\ tk.pc = "saveEmail"
    /\ IF ok /\ ~EmailUniqueViolation(m)
       THEN /\ emails' = Append(emails, NewEmailRow(m, tk.cid))
            /\ task' = [task EXCEPT ![t] =
                           [tk EXCEPT !.pc = "updProcessing", !.emailId = Len(emails) + 1]]
       ELSE /\ emails' = emails
            /\ task' = [task EXCEPT ![t] =
                           Resume([tk EXCEPT !.log = IF ok THEN "duplicate microsoftId"
                                                     ELSE "save failed"])]
    /\ UNCHANGED <<clients, subs, aiResponses, drafts, hour, engineUp, reply, templates, engine,
                   inflight>>

\* line 98: the PROCESSING update returns; then createSimpleAutoResponse is
\* entered and issues its client lookup
UpdProcessingReturn(t, ok) ==
    LET tk == task[t] IN
    /\ tk.pc = "updProcessing"
    /\ IF ok
       THEN /\ emails' = updateEmailStatus(tk.emailId, "PROCESSING")
            /\ task' = [task EXCEPT ![t] = [tk EXCEPT !.pc = "getClient2"]]
       ELSE /\ emails' = emails
            /\ task' = [task EXCEPT ![t] =
                           Resume([tk EXCEPT !.log = "status update failed"])]
    /\ UNCHANGED <<clients, subs, aiResponses, drafts, hour, engineUp, reply, templates, engine,
                   inflight>>

\* createSimpleAutoResponse, lines 118-138: the lookup returns; a message of
\* the client's own address is skipped, otherwise the draft reply is requested
\* with the fixed acknowledgment text
GetClient2Return(t, ok) ==
    LET tk == task[t]
        client == getClientById(tk.cid) IN
    /\ tk.pc = "getClient2"
    /\ task' = [task EXCEPT ![t] =
                   IF ~ok \/ client.threw
                   THEN [tk EXCEPT !.pc = "updError", !.log = "lookup failed"]
                   ELSE IF client.found /\ MessageSender(tk.cur.resourceData) = client.email
                        THEN Resume([tk EXCEPT !.log = "own email skipped"])
                        ELSE [tk EXCEPT !.pc = "draft"]]
    /\ UNCHANGED <<clients, subs, emails, aiResponses, drafts, hour, engineUp, reply, templates, engine,
                   inflight>>

\* (mutant) a failed draft request is swallowed and the response is recorded
DraftReturnSwallowsFailure(t, ok) ==
    LET tk == task[t] IN
    /\ tk.pc = "draft"
    /\ IF ok
       THEN /\ drafts' = Append(drafts, tk.cur.resourceData)
            /\ task' = [task EXCEPT ![t] =
                           [tk EXCEPT !.pc = "saveAI", !.draftId = Len(drafts) + 1]]
       ELSE /\ drafts' = drafts
            /\ task' = [task EXCEPT ![t] = [tk EXCEPT !.pc = "saveAI", !.draftId = 0]]
    /\ UNCHANGED <<clients, subs, emails, aiResponses, hour, engineUp, reply, templates, engine,
                   inflight>>

\* line 134: createDraftReply returns the draft created in the mailbox, or
\* throws (caught at 155)
DraftReturn(t, ok) ==
    LET tk == task[t] IN
    /\ tk.pc = "draft"
    /\ IF ok
       THEN /\ drafts' = Append(drafts, tk.cur.resourceData)
            /\ task' = [task EXCEPT ![t] =
                           [tk EXCEPT !.pc = "saveAI", !.draftId = Len(drafts) + 1]]
       ELSE /\ drafts' = drafts
            /\ task' = [task EXCEPT ![t] =
                           [tk EXCEPT !.pc = "updError", !.log = "draft failed"]]
    /\ UNCHANGED <<clients, subs, emails, aiResponses, hour, engineUp, reply, templates, engine,
                   inflight>>

\* (mutant) a failed saveAIResponse is swallowed and the status is set
SaveAIReturnSwallowsFailure(t, ok) ==
    LET tk == task[t] IN
    /\ tk.pc = "saveAI"
    /\ aiResponses' = IF ok
                      THEN Append(aiResponses, NewAIResponseRow(tk.emailId, tk.draftId))
                      ELSE aiResponses
    /\ task' = [task EXCEPT ![t] = [tk EXCEPT !.pc = "updDraftCreated"]]
    /\ UNCHANGED <<clients, subs, emails, drafts, hour, engineUp, reply, templates, engine,
                   inflight>>

\* line 141: saveAIResponse returns or throws
SaveAIReturn(t, ok) ==
    LET tk == task[t] IN
    /\ tk.pc = "saveAI"
    /\ IF ok
       THEN /\ aiResponses' = Append(aiResponses, NewAIResponseRow(tk.emailId, tk.draftId))
            /\ task' = [task EXCEPT ![t] = [tk EXCEPT !.pc = "updDraftCreated"]]
       ELSE /\ aiResponses' = aiResponses
            /\ task' = [task EXCEPT ![t] =
                           [tk EXCEPT !.pc = "updError", !.log = "response save failed"]]
    /\ UNCHANGED <<clients, subs, emails, drafts, hour, engineUp, reply, templates, engine,
                   inflight>>

\* line 150: the DRAFT_CREATED update returns or throws
UpdDraftCreatedReturn(t, ok) ==
    LET tk == task[t] IN
    /\ tk.pc = "updDraftCreated"
    /\ IF ok
       THEN /\ emails' = updateEmailStatus(tk.emailId, "DRAFT_CREATED")
            /\ task' = [task EXCEPT ![t] = Resume([tk EXCEPT !.log = "draft created"])]
       ELSE /\ emails' = emails
            /\ task' = [task EXCEPT ![t] =
                           [tk EXCEPT !.pc = "updError", !.log = "status update failed"]]
    /\ UNCHANGED <<clients, subs, aiResponses, drafts, hour, engineUp, reply, templates, engine,
                   inflight>>

\* lines 155-163: the catch block's ERROR update returns or throws (logged)
UpdErrorReturn(t, ok) ==
    LET tk == task[t] IN
    /\ tk.pc = "updError"
    /\ emails' = IF ok THEN updateEmailStatus(tk.emailId, "ERROR") ELSE emails
    /\ task' = [task EXCEPT ![t] =
                   Resume(IF ok THEN tk ELSE [tk EXCEPT !.log = "status update failed"])]
    /\ UNCHANGED <<clients, subs, aiResponses, drafts, hour, engineUp, reply, templates, engine,
                   inflight>>

(* ========================== specification ============================== *)

\* the steps of the background task of request slot t; oks is the set of
\* outcomes the external calls may have (TRUE: the call succeeds)
Pipeline(t, oks) ==
    \/ \E c \in RequestClientIds, n \in 0..MaxBatch : Post(t, c, n)
    \/ \E ok \in oks : GetClientReturn(t, ok)
    \/ \E n \in NotificationKinds : TakeNotification(t, n)
    \/ \E ok \in oks : FetchReturn(t, ok)
    \/ \E ok \in oks : SaveEmailReturn(t, ok)
    \/ \E ok \in oks : UpdProcessingReturn(t, ok)
    \/ \E ok \in oks : GetClient2Return(t, ok)
    \/ \E ok \in oks : DraftReturn(t, ok)
    \/ \E ok \in oks : SaveAIReturn(t, ok)
    \/ \E ok \in oks : UpdDraftCreatedReturn(t, ok)
    \/ \E ok \in oks : UpdErrorReturn(t, ok)

\* the OAuth connect flow, which completes the onboarding of a registered
\* client
Onboarding ==
    \/ \E c \in ClientIds, stop \in CallbackStops, a \in BOOLEAN : OAuthCallback(c, stop, a)
    \/ \E i \in 1..MaxInflight, stop \in SubscriptionStops : OAuthCallbackSubscription(i, stop)

\* the pipeline under concurrent deliveries and failing external calls, for
\* a client registered from the dashboard
Next ==
    \/ Onboarding
    \/ \E t \in Tasks : Pipeline(t, BOOLEAN)

Spec == Init /\ [][Next]_vars

\* policy changes: the profile route, called by the dashboard or with
\* another body, and the clock
Policy ==
    \/ \E c \in ClientIds, b \in BOOLEAN : ToggleAIEnabled(c, b)
    \/ \E c \in ClientIds, b \in BOOLEAN : UpdateAISettings(c, b)
    \/ \E c \in ClientIds, hasContext \in BOOLEAN :
          UpdateProfile(c, hasContext, [aiEnabled |-> FALSE, bhEnabled |-> TRUE])
    \/ \E i \in 1..MaxInflight, ok \in BOOLEAN : UpdateProfileReturn(i, ok)
    \/ \E h \in ClockHours : Tick(h)

\* a client registered with any businessContext; the Generation Engine
\* answers or not
InitPolicy ==
    /\ InitStore(BusinessContexts)
    /\ hour = 12
    /\ engineUp \in BOOLEAN

\* policy changes and the availability of the Generation Engine, around the
\* onboarding of a client and the deliveries of one request slot, whose own
\* calls succeed
NextPolicy ==
    \/ Onboarding
    \/ Policy
    \/ Pipeline("t1", {TRUE})

SpecPolicy == InitPolicy /\ [][NextPolicy]_vars

\* the disconnect route, step by step
Disconnecting ==
    \/ \E c \in RequestClientIds, ok \in BOOLEAN : Disconnect(c, ok)
    \/ \E i \in 1..MaxInflight, ok \in BOOLEAN : DisconnectList(i, ok)
    \/ \E i \in 1..MaxInflight, deleted \in BOOLEAN, ok \in BOOLEAN :
          DisconnectSubscription(i, deleted, ok)
    \/ \E i \in 1..MaxInflight, ok \in BOOLEAN : DisconnectTokens(i, ok)

\* the request/response routes around the pipeline: the validation handshake,
\* token refresh and disconnect
Api ==
    \/ \E c \in RequestClientIds, v \in ValidationTokens : ValidationGet(c, v)
    \/ \E c \in RequestClientIds, ok \in BOOLEAN : Refresh(c, ok)
    \/ Disconnecting

\* the routes around the deliveries of one request slot, whose own calls
\* succeed
NextApi ==
    \/ Onboarding
    \/ Api
    \/ Pipeline("t1", {TRUE})

SpecApi == Init /\ [][NextApi]_vars

\* scenario A: a registered, connected client with AI enabled and business
\* hours disabled, and every external call succeeding
ConnectedClient(c) ==
    [NoClient EXCEPT !.exists = TRUE, !.email = ClientEmail(c), !.tenantId = "common",
                     !.accessToken = encrypt("tok"), !.refreshToken = encrypt("acct"),
                     !.tokenExpiry = TRUE]

InitA ==
    /\ clients = [c \in ClientIds |-> ConnectedClient(c)]
    /\ subs = <<[clientId |-> "c1", subscriptionId |-> 1, isActive |-> TRUE]>>
    /\ emails = <<>>
    /\ aiResponses = <<>>
    /\ drafts = <<>>
    /\ task = [t \in Tasks |-> IdleTask]
    /\ hour = 12
    /\ engineUp = TRUE
    /\ reply = NoReply
    /\ templates = <<>>
    /\ engine = NoCall
    /\ inflight = <<>>

\* a pending call of slot t returns successfully and the task continues
Continue(t) ==
    \/ GetClientReturn(t, TRUE)
    \/ \E n \in NotificationKinds : TakeNotification(t, n)
    \/ FetchReturn(t, TRUE)
    \/ SaveEmailReturn(t, TRUE)
    \/ UpdProcessingReturn(t, TRUE)
    \/ GetClient2Return(t, TRUE)
    \/ DraftReturn(t, TRUE)
    \/ SaveAIReturn(t, TRUE)
    \/ UpdDraftCreatedReturn(t, TRUE)

NextA ==
    \E t \in Tasks :
        \/ \E c \in RequestClientIds, n \in 0..MaxBatch : Post(t, c, n)
        \/ Continue(t)

\* the event loop resumes a task whenever the call it awaits has returned
SpecA == InitA /\ [][NextA]_vars /\ \A t \in Tasks : WF_vars(Continue(t))

\* the rows a template request may have left: the id of a row is its place
\* in the table
TemplateTables ==
    UNION { { [i \in 1..n |-> [id |-> i, clientId |-> cs[i], trigger |-> ts[i],
                               isActive |-> as[i]]] :
                cs \in [1..n -> ClientIds], ts \in [1..n -> Triggers],
                as \in [1..n -> BOOLEAN] } : n \in 0..MaxTemplates }

\* the Generation Engine for a connected client; the engine is up or down,
\* the Policy Store holds any table the template routes can have built
InitEngine ==
    /\ clients = [c \in ClientIds |-> ConnectedClient(c)]
    /\ subs = <<[clientId |-> "c1", subscriptionId |-> 1, isActive |-> TRUE]>>
    /\ emails = <<>>
    /\ aiResponses = <<>>
    /\ drafts = <<>>
    /\ task = [t \in Tasks |-> IdleTask]
    /\ hour = 12
    /\ engineUp \in BOOLEAN
    /\ reply = NoReply
    /\ templates \in TemplateTables
    /\ engine = NoCall
    /\ inflight = <<>>

\* the template routes of the dashboard, with triggers of `triggers`
TemplateStore(triggers) ==
    \/ \E c \in ClientIds, trigger \in triggers : CreateTemplate(c, trigger)
    \/ \E i \in 1..MaxInflight, ok \in BOOLEAN : CreateTemplateReturn(i, ok)
    \/ \E c \in ClientIds, templateId \in 1..MaxTemplates,
          trigger \in triggers \cup {<<>>}, isActive \in TemplateActive :
          UpdateTemplate(c, templateId, trigger, isActive)
    \/ \E i \in 1..MaxInflight, ok \in BOOLEAN : UpdateTemplateReturn(i, ok)
    \/ \E c \in ClientIds, templateId \in 1..MaxTemplates : DeleteTemplate(c, templateId)
    \/ \E i \in 1..MaxInflight, ok \in BOOLEAN : DeleteTemplateReturn(i, ok)

NextEngine ==
    \/ \E c \in ClientIds, e \in EmailIds :
          \E workspaceTemplates \in WorkspaceTemplates(c) :
              BuildUserPrompt(e, workspaceTemplates)
    \/ \E outcome \in ModelOutcomes : GenerateEmailResponse(outcome)

SpecEngine == InitEngine /\ [][NextEngine]_vars

\* the dashboard of a connected client around a disconnect: the profile and
\* template routes, whose lookups a disconnect makes throw
InitDashboard ==
    /\ clients = [c \in ClientIds |-> ConnectedClient(c)]
    /\ subs = <<[clientId |-> "c1", subscriptionId |-> 1, isActive |-> TRUE]>>
    /\ emails = <<>>
    /\ aiResponses = <<>>
    /\ drafts = <<>>
    /\ task = [t \in Tasks |-> IdleTask]
    /\ hour = 12
    /\ engineUp = TRUE
    /\ reply = NoReply
    /\ templates = <<>>
    /\ engine = NoCall
    /\ inflight = <<>>

\* the dashboard's requests and the disconnect route, interleaved at their
\* awaits
NextDashboard ==
    \/ TemplateStore({TriggerPricing})
    \/ \E c \in ClientIds, b \in BOOLEAN : ToggleAIEnabled(c, b)
    \/ \E i \in 1..MaxInflight, ok \in BOOLEAN : UpdateProfileReturn(i, ok)
    \/ Disconnecting

SpecDashboard == InitDashboard /\ [][NextDashboard]_vars

\* the business-hours check of the Generation Engine on sampled instants and
\* settings
NextHours ==
    \E date \in Dates, businessHours \in BusinessHoursSettings :
        IsWithinBusinessHours(date, businessHours)

SpecHours == InitA /\ [][NextHours]_vars

\* the clients table as the registration route sees it: rows for up to two
\* clients, none registered yet
RegistryIds == {"c1", "c2"}
RequestEmails == {"", "owner@example.com", "sales@example.com"}
RequestTenants == {"", "tenant-a", "tenant-b"}
\* the businessContext of a registration: the dashboard's, and one that
\* switches the AI off and the business hours on
RequestContexts == {DashboardContext, [aiEnabled |-> FALSE, bhEnabled |-> TRUE]}

InitRegistry ==
    /\ reply = NoReply
    /\ templates = <<>>
    /\ engine = NoCall
    /\ inflight = <<>>
    /\ clients = [c \in RegistryIds |-> NoClient]
    /\ subs = <<>>
    /\ emails = <<>>
    /\ aiResponses = <<>>
    /\ drafts = <<>>
    /\ task = [t \in Tasks |-> IdleTask]
    /\ hour = 12
    /\ engineUp = TRUE

\* DatabaseService.getClientByEmail: whether a row has the email, and whether
\* decrypting its stored tokens throws
getClientByEmail(email) ==
    LET rows == { d \in DOMAIN clients : clients[d].exists /\ clients[d].email = email } IN
    [found |-> rows # {},
     threw |-> \E d \in rows : \/ decryptThrows(clients[d].accessToken)
                               \/ decryptThrows(clients[d].refreshToken)]

\* POST /api/client/register with the body {email, name, companyName,
\* tenantId, businessContext}, up to the await of createClient; `complete`
\* tells whether name and companyName are given, an empty email or tenantId is
\* an omitted one. 400 on a missing field, 500 when the lookup by email throws
\* or the database rejects it (ok: it answers), 409 on an existing email;
\* otherwise the insert is issued
RegisterRequest(email, complete, tenantId, businessContext, ok) ==
    LET existingClient == getClientByEmail(email) IN
    /\ IF email = "" \/ ~complete
       THEN /\ reply' = AuthReply("register", 400)
            /\ inflight' = inflight
       ELSE IF ~ok \/ existingClient.threw
       THEN /\ reply' = AuthReply("register", 500)
            /\ inflight' = inflight
       ELSE IF existingClient.found
       THEN /\ reply' = AuthReply("register", 409)
            /\ inflight' = inflight
       ELSE /\ Len(inflight) < MaxInflight
            /\ reply' = reply
            /\ inflight' = Append(inflight,
                   [Suspended("register", "", "createClient") EXCEPT
                       !.email = email,
                       !.tenantId = IF tenantId = "" THEN "common" ELSE tenantId,
                       !.aiEnabled = businessContext.aiEnabled,
                       !.bhEnabled = businessContext.bhEnabled])
    /\ UNCHANGED <<clients, subs, emails, aiResponses, drafts, hour, engineUp, task,
                   templates, engine>>

\* DatabaseService.createClient, the insert: it fails on the unique index of
\* email or of tenantId
UniqueViolation(email, tenantId) ==
    \E d \in DOMAIN clients :
        /\ clients[d].exists
        /\ clients[d].email = email \/ clients[d].tenantId = tenantId

\* the ids of the rows the table has room for (it holds at most RegistryIds)
FreeIds == { d \in DOMAIN clients : ~clients[d].exists }

\* register, lines 27-44: createClient returns the new row (201), or throws
\* on a unique index or because the database rejects the insert (ok: it
\* answers), which the catch block answers with 500. The new row takes a
\* free id
CreateClientReturn(i, ok) ==
    LET r == inflight[i] IN
    /\ i \in 1..Len(inflight)
    /\ r.route = "register"
    /\ IF ~ok \/ UniqueViolation(r.email, r.tenantId)
       THEN /\ reply' = AuthReply("register", 500)
            /\ clients' = clients
       ELSE /\ FreeIds # {}
            /\ reply' = AuthReply("register", 201)
            /\ clients' = [clients EXCEPT ![CHOOSE d \in FreeIds : TRUE] =
                              NewClientRow(r.email, r.tenantId,
                                  [aiEnabled |-> r.aiEnabled, bhEnabled |-> r.bhEnabled])]
    /\ inflight' = Answered(i)
    /\ UNCHANGED <<subs, emails, aiResponses, drafts, hour, engineUp, task, templates,
                   engine>>

\* the values of Date.now() of a test request
TestNows == {1, 2}
\* `test-${Date.now()}@example.com` and 'test-tenant-' + Date.now()
TestEmail(now) == IF now = 1 THEN "test-1@example.com" ELSE "test-2@example.com"
TestTenant(now) == IF now = 1 THEN "test-tenant-1" ELSE "test-tenant-2"

\* GET /test-db up to the await of client.delete: createClient inserts a row
\* with no businessContext, whose email and tenant carry the time of the
\* request (the tenant is stamped after the email); when the insert throws
\* the route answers 500
TestDb(nowEmail, nowTenant, ok) ==
    /\ nowEmail <= nowTenant
    /\ IF ~ok \/ UniqueViolation(TestEmail(nowEmail), TestTenant(nowTenant))
       THEN /\ reply' = AuthReply("test-db", 500)
            /\ clients' = clients
            /\ inflight' = inflight
       ELSE LET d == CHOOSE d \in FreeIds : TRUE IN
            /\ FreeIds # {}
            /\ Len(inflight) < MaxInflight
            /\ reply' = reply
            /\ clients' = [clients EXCEPT ![d] =
                              NewClientRow(TestEmail(nowEmail), TestTenant(nowTenant),
                                           NoBusinessContext)]
            /\ inflight' = Append(inflight, Suspended("test-db", d, "delete"))
    /\ UNCHANGED <<subs, emails, aiResponses, drafts, hour, engineUp, task, templates,
                   engine>>

\* the test route resumes: client.delete removes the test row (200), or
\* throws (ok: it succeeds) and the row stays (500)
TestDbDelete(i, ok) ==
    LET r == inflight[i] IN
    /\ i \in 1..Len(inflight)
    /\ r.route = "test-db"
    /\ clients' = IF ok THEN [clients EXCEPT ![r.cid] = NoClient] ELSE clients
    /\ reply' = AuthReply("test-db", IF ok THEN 200 ELSE 500)
    /\ inflight' = Answered(i)
    /\ UNCHANGED <<subs, emails, aiResponses, drafts, hour, engineUp, task, templates,
                   engine>>

\* any sequence of registration and test requests
NextRegistry ==
    \/ \E email \in RequestEmails, complete \in BOOLEAN, tenantId \in RequestTenants,
          businessContext \in RequestContexts, ok \in BOOLEAN :
          RegisterRequest(email, complete, tenantId, businessContext, ok)
    \/ \E i \in 1..MaxInflight, ok \in BOOLEAN : CreateClientReturn(i, ok)
    \/ \E nowEmail \in TestNows, nowTenant \in TestNows, ok \in BOOLEAN :
          TestDb(nowEmail, nowTenant, ok)
    \/ \E i \in 1..MaxInflight, ok \in BOOLEAN : TestDbDelete(i, ok)

SpecRegistry == InitRegistry /\ [][NextRegistry]_vars

(* ============================== claims ================================= *)

EmailsOf(m) == { i \in 1..Len(emails) : emails[i].microsoftId = m }
ResponsesOf(i) == { k \in 1..Len(aiResponses) : aiResponses[k].emailId = i }
DraftsOf(m) == { d \in 1..Len(drafts) : drafts[d] = m }

\* the request slot that takes the step, and the notification it acts for
Acts(t) == task'[t] # task[t]
ActsFor(t) == IF task[t].pc = "loop" THEN task'[t].cur ELSE task[t].cur

\* an effect of the pipeline: a table or the drafts folder changes, or a
\* mailbox call (message fetch, draft creation) is issued
IssuesMailboxCall(t) ==
    /\ task'[t].pc \in {"fetch", "draft"}
    /\ task'[t].pc # task[t].pc
PipelineEffect ==
    \/ emails' # emails
    \/ aiResponses' # aiResponses
    \/ drafts' # drafts
    \/ \E t \in Tasks : IssuesMailboxCall(t)

\* C1: under any interleaving of deliveries that name the same upstream
\* message id, at most one Email row with that id exists in every state.
C1_OneEmailPerUpstreamId ==
    \A m \in Messages : Cardinality(EmailsOf(m)) <= 1

\* a concurrent delivery of m1 was rejected by the unique index while the
\* delivery that created the row is still being processed
C1_Witness ==
    \E t, u \in Tasks :
        /\ t # u
        /\ task[t].log = "duplicate microsoftId"
        /\ task[t].cur.resourceData = "m1"
        /\ task[u].emailId # 0
        /\ task[u].cur.resourceData = "m1"
        /\ Cardinality(EmailsOf("m1")) = 1

\* C2: every request slot that has received a POST has been answered 202,
\* whatever its background task is doing or has met (unknown client, failed
\* lookup, failed downstream call): the 202 precedes all processing and no
\* other answer is ever given.
C2_AckBeforeProcessing ==
    \A t \in Tasks : task[t].pc # "idle" => task[t].response = AckStatus

\* one request is acknowledged while its client is unknown and its lookup is
\* pending, another while a downstream failure is being recorded
C2_Witness ==
    \E t, u \in Tasks :
        /\ task[t].pc = "getClient" /\ task[t].cid \notin ClientIds
        /\ task[t].response = AckStatus
        /\ task[u].pc = "updError" /\ task[u].response = AckStatus

\* C3: every Email row is created RECEIVED, and every status change is one
\* of RECEIVED->PROCESSING, PROCESSING->DRAFT_CREATED, PROCESSING->RECEIVED,
\* PROCESSING->ERROR.
StatusGraph ==
    { <<"RECEIVED", "PROCESSING">>, <<"PROCESSING", "DRAFT_CREATED">>,
      <<"PROCESSING", "RECEIVED">>, <<"PROCESSING", "ERROR">> }
C3_StatusStep ==
    /\ Len(emails') >= Len(emails)
    /\ \A i \in 1..Len(emails) :
          emails'[i].status # emails[i].status
              => <<emails[i].status, emails'[i].status>> \in StatusGraph
    /\ \A i \in (Len(emails) + 1)..Len(emails') : emails'[i].status = "RECEIVED"
C3_StatusTransitions == [][C3_StatusStep]_vars

\* one Email has reached DRAFT_CREATED and another ERROR
C3_Witness ==
    \E i, j \in 1..Len(emails) :
        emails[i].status = "DRAFT_CREATED" /\ emails[j].status = "ERROR"

\* C4: a task that resolved a client whose aiEnabled flag is false never
\* holds an Email row it saved (so it never creates an Email or AIResponse).
C4_DisabledClientCreatesNothing ==
    \A t \in Tasks : task[t].emailId # 0 => task[t].lookupAi

\* C5: no Email row exists for a message whose sender address is the owning
\* client's own address.
C5_NoRowForOwnEmail ==
    \A i \in 1..Len(emails) :
        MessageSender(emails[i].microsoftId) # clients[emails[i].clientId].email

\* C6: when the lookup of createSimpleAutoResponse returns (successfully, for
\* the message of a correspondent) for a client with business hours enabled
\* while the clock is outside [start, end), the Email is set back to RECEIVED
\* and no draft creation is requested.
C6_GateStep ==
    \A t \in Tasks :
        ( /\ task[t].pc = "getClient2"
          /\ Acts(t)
          /\ task'[t].log # "lookup failed"
          /\ MessageSender(task[t].cur.resourceData) # clients[task[t].cid].email
          /\ clients[task[t].cid].bhEnabled
          /\ ~isWithinBusinessHours(hour, BusinessStart, BusinessEnd) )
        => ( /\ task'[t].pc # "draft"
             /\ emails'[task[t].emailId].status = "RECEIVED" )
C6_BusinessHoursDeferral == [][C6_GateStep]_vars

\* C7: every effect of the pipeline (a row written, a status changed, a
\* message fetched, a draft requested or created) is made for a notification
\* of changeType 'created' that carries resource data; the others are
\* passed over without any effect.
C7_EffectStep ==
    PipelineEffect =>
        \E t \in Tasks :
            /\ Acts(t)
            /\ ActsFor(t).changeType = "created"
            /\ ActsFor(t).resourceData \in Messages
C7_OnlyCreatedIsProcessed == [][C7_EffectStep]_vars

\* a validated 'updated' notification has been passed over and nothing was fetched or written
C7_Witness ==
    \E t \in Tasks :
        /\ task[t].pc = "loop"
        /\ task[t].cur.clientState = "email-drafts-agent"
        /\ task[t].cur.changeType = "updated"
        /\ emails = <<>> /\ aiResponses = <<>> /\ drafts = <<>>

\* C8: every effect of the pipeline is made for a notification whose
\* clientState is the expected secret; a notification failing validation is
\* dropped before any write and any mailbox call.
C8_EffectStep ==
    PipelineEffect =>
        \E t \in Tasks : Acts(t) /\ ActsFor(t).clientState = "email-drafts-agent"
C8_InvalidStateHalts == [][C8_EffectStep]_vars

\* a notification with a forged clientState has been dropped and nothing was
\* fetched or written
C8_Witness ==
    \E t \in Tasks :
        /\ task[t].pc = "loop"
        /\ task[t].log = "invalid client state"
        /\ task[t].cur.clientState = "forged"
        /\ emails = <<>> /\ aiResponses = <<>> /\ drafts = <<>>

\* C9: in scenario A, once a valid 'created' notification for the message of
\* a correspondent is being processed, eventually exactly one Email row for
\* it exists, in status DRAFT_CREATED, with exactly one AIResponse row whose
\* draftId is set.
ScenarioAResult(m) ==
    /\ Cardinality(EmailsOf(m)) = 1
    /\ \A i \in EmailsOf(m) :
          /\ emails[i].status = "DRAFT_CREATED"
          /\ Cardinality(ResponsesOf(i)) = 1
          /\ \A k \in ResponsesOf(i) : aiResponses[k].draftId # 0
C9_ScenarioA ==
    (\E t \in Tasks : task[t].pc = "fetch" /\ task[t].cur.resourceData = "m1")
        ~> ScenarioAResult("m1")

\* the single delivery of m1 has finished with its draft recorded
C9_Witness ==
    /\ ScenarioAResult("m1")
    /\ Cardinality(DraftsOf("m1")) = 1
    /\ \A t \in Tasks : task[t].pc \in {"idle", "done"}

\* C10: while the Generation Engine is unavailable, no Email reaches
\* DRAFT_CREATED, no AIResponse row exists and no draft is created.
C10_EngineFailureIsError ==
    ~engineUp =>
        /\ \A i \in 1..Len(emails) : emails[i].status # "DRAFT_CREATED"
        /\ aiResponses = <<>>
        /\ drafts = <<>>

\* C11: a failed message fetch creates no Email row and leads to no draft
\* request; a failed draft request (the Email row exists) persists no
\* AIResponse and is followed by the ERROR update of that row, after which
\* the row is in ERROR, and by nothing else for that notification: the
\* request is not issued again.
C11_FailureStep ==
    \A t \in Tasks :
        /\ (task[t].pc = "fetch" /\ Acts(t) /\ task'[t].pc # "saveEmail")
              => /\ emails' = emails /\ drafts' = drafts /\ aiResponses' = aiResponses
                 /\ task'[t].pc \in {"loop", "done"}
        /\ (task[t].pc = "draft" /\ Acts(t) /\ drafts' = drafts)
              => /\ task'[t].pc = "updError"
                 /\ task'[t].emailId = task[t].emailId
                 /\ aiResponses' = aiResponses
                 /\ ResponsesOf(task[t].emailId) = {}
        /\ (task[t].pc = "updError" /\ task[t].log = "draft failed" /\ Acts(t))
              => /\ task'[t].pc \in {"loop", "done"}
                 /\ drafts' = drafts /\ aiResponses' = aiResponses
                 /\ emails'[task[t].emailId].status = "ERROR"
C11_MailboxFailureRecorded == [][C11_FailureStep]_vars

\* C12: whatever happens to one notification of a batch (rejected, fetch,
\* save, draft or status update failed), the task goes on to the remaining
\* notifications: it finishes only when none is left.
NotificationsLeft(t) ==
    IF task[t].pc = "loop" THEN task[t].remaining - 1 ELSE task[t].remaining
C12_BatchStep ==
    \A t \in Tasks :
        (Acts(t) /\ task[t].pc \notin {"idle", "done", "getClient"})
            => /\ task'[t].pc = "done" => NotificationsLeft(t) = 0
               /\ task'[t].pc # "done" => task'[t].remaining = NotificationsLeft(t)
C12_BatchIndependence == [][C12_BatchStep]_vars

\* after a failure on one notification the next one of the batch is fetched
C12_Witness ==
    \E t \in Tasks :
        /\ task[t].pc = "loop"
        /\ task[t].log \in {"invalid client state", "fetch failed", "save failed",
                            "draft failed", "status update failed"}
        /\ task[t].remaining >= 1

\* C13: an Email in status ERROR keeps that status in every later step,
\* whichever deliveries (also of the same upstream id) are processed.
C13_ErrorStep ==
    \A i \in 1..Len(emails) : emails[i].status = "ERROR" => emails'[i].status = "ERROR"
C13_ErrorIsTerminal == [][C13_ErrorStep]_vars

\* a redelivery for a message whose Email is in ERROR was rejected
C13_Witness ==
    \E t \in Tasks, i \in 1..Len(emails) :
        /\ emails[i].status = "ERROR"
        /\ task[t].log = "duplicate microsoftId"
        /\ task[t].cur.resourceData = emails[i].microsoftId

\* C14: every AIResponse row, from the step that creates it on, references
\* an Email row that existed before that step.
C14_ReferenceStep ==
    \A k \in 1..Len(aiResponses') : aiResponses'[k].emailId \in 1..Len(emails)
C14_ResponseReferencesEmail == [][C14_ReferenceStep]_vars

\* an AIResponse exists for the second Email row
C14_Witness ==
    \E k \in 1..Len(aiResponses) :
        aiResponses[k].emailId = 2 /\ Len(emails) >= 2

\* C15: the stored accessToken and refreshToken of every client are both
\* present (a stored, non-empty credential) or both absent, and a present
\* pair has a tokenExpiry.
CredentialPresent(stored) == stored # NullToken /\ stored # <<"enc", "">>
C15_CredentialPair ==
    \A c \in ClientIds :
        clients[c].exists =>
            /\ CredentialPresent(clients[c].accessToken)
                  <=> CredentialPresent(clients[c].refreshToken)
            /\ CredentialPresent(clients[c].accessToken) => clients[c].tokenExpiry

\* C16: a validation GET that carries a token is answered 200, text/plain,
\* with exactly the token as body, and leaves every table, the mailbox and
\* the running tasks as they were.
C16_ValidationStep ==
    (reply' # reply /\ reply'.route = "validation" /\ reply'.token # "")
        => /\ reply'.status = 200
           /\ reply'.type = "text/plain"
           /\ reply'.body = reply'.token
           /\ UNCHANGED <<clients, subs, emails, aiResponses, drafts, task, templates, inflight>>
C16_ValidationEcho == [][C16_ValidationStep]_vars

\* the handshake was answered with the token while Email rows exist
C16_Witness ==
    /\ reply.route = "validation" /\ reply.token = "tokB"
    /\ reply.status = 200 /\ reply.body = "tokB"
    /\ emails # <<>>

\* the keyword test of the matching rule, stated on positions: the trigger
\* has a comma-free, maximal segment whose text between its first and last
\* non-blank character occurs in subject + " " + body, letters compared
\* without regard to case
LetterPairs == { {UpperCase[k], LowerCase[k]} : k \in 1..Len(UpperCase) }
SameLetter(a, b) == a = b \/ {a, b} \in LetterPairs
OccursAt(text, word, p) ==
    /\ p + Len(word) <= Len(text)
    /\ \A j \in 1..Len(word) : SameLetter(text[p + j], word[j])
SegmentStarts(trigger) ==
    { a \in 1..(Len(trigger) + 1) : a = 1 \/ trigger[a - 1] = "," }
SegmentEnd(trigger, a) ==
    LET commas == { i \in a..Len(trigger) : trigger[i] = "," } IN
    IF commas = {} THEN Len(trigger)
    ELSE (CHOOSE i \in commas : \A j \in commas : i <= j) - 1
Keyword(trigger, a) ==
    LET inside == {i \in a..SegmentEnd(trigger, a) : trigger[i] # " "} IN
    IF inside = {} THEN <<>>
    ELSE SubSeq(trigger, CHOOSE i \in inside : \A j \in inside : i <= j,
                         CHOOSE i \in inside : \A j \in inside : j <= i)
KeywordOccurs(trigger, e) ==
    LET text == EmailSubject(e) \o <<" ">> \o EmailBody(e) IN
    \E a \in SegmentStarts(trigger) :
        LET word == Keyword(trigger, a) IN
        \E p \in 0..(Len(text) - Len(word)) : OccursAt(text, word, p)
ActiveMatches(e) ==
    { i \in 1..Len(templates) :
        templates[i].isActive /\ KeywordOccurs(templates[i].trigger, e) }
InSeq(seq) == { seq[k] : k \in 1..Len(seq) }

\* C17: the templates selected for an email are templates of which a keyword
\* occurs in the email's text, and every such template is selected as long
\* as there are no more than three of them; for the email "Can we schedule a
\* call" a "meeting,schedule" template is selected and a "pricing" template
\* is not.
PromptBuilt == engine' # engine /\ engine'.op = "buildUserPrompt"
C17_MatchStep ==
    PromptBuilt =>
        LET matches == ActiveMatches(engine'.email) IN
        /\ InSeq(engine'.relevant) \subseteq matches
        /\ Cardinality(matches) <= 3 => InSeq(engine'.relevant) = matches
        /\ \A i \in 1..Len(templates) :
              /\ (engine'.email = "e1" /\ templates[i].trigger = TriggerPricing)
                    => i \notin InSeq(engine'.relevant)
              /\ ( /\ engine'.email = "e1" /\ templates[i].trigger = TriggerMeeting
                   /\ templates[i].isActive /\ Len(templates) <= 3 )
                    => i \in InSeq(engine'.relevant)
C17_TemplateMatching == [][C17_MatchStep]_vars

\* for "Can we schedule a call" the meeting template is selected and the
\* pricing template is not; for "PRICING" the pricing template is
C17_Witness ==
    \E i, j \in 1..Len(templates) :
        /\ templates[i].trigger = TriggerMeeting /\ templates[i].isActive
        /\ templates[j].trigger = TriggerPricing /\ templates[j].isActive
        /\ engine.op = "buildUserPrompt"
        /\ j < i
        /\ engine.email = "e1"
        /\ engine.relevant = <<i>>

\* C18: the relevant templates are at most three, listed most recently
\* created first, and no matching template created after the last listed one
\* is left out.
C18_CapStep ==
    PromptBuilt =>
        LET r == engine'.relevant
            matches == ActiveMatches(engine'.email) IN
        /\ Len(r) <= 3
        /\ InSeq(r) \subseteq matches
        /\ \A k \in 1..(Len(r) - 1) : r[k] > r[k + 1]
        /\ \A i \in matches \ InSeq(r) : Len(r) = 3 /\ i < r[3]
C18_CapAndOrder == [][C18_CapStep]_vars

\* C19 (as amended): generation fails exactly when the model call fails or
\* its answer does not start with a text block; for every text it returns a
\* result whose content is the reply's emailResponse or the trimmed text, and
\* whose confidence is a default (0.7, or 0.6 for unparseable JSON) unless the
\* parsed reply carries one.
Unblanked(text) ==
    LET inside == {i \in 1..Len(text) : text[i] # " "} IN
    IF inside = {} THEN <<>>
    ELSE SubSeq(text, CHOOSE i \in inside : \A j \in inside : i <= j,
                      CHOOSE i \in inside : \A j \in inside : j <= i)
C19_FormatNeverFails ==
    engine.op = "generateEmailResponse" =>
        /\ engine.failed <=> engine.kind # "text"
        /\ engine.kind = "text" =>
              /\ engine.content \in {<<"Hi">>, Unblanked(engine.text)}
              /\ "er" \notin InSeq(engine.text) => engine.content = Unblanked(engine.text)
              /\ InSeq(engine.text) \cap {"c85", "c150", "c-100"} = {}
                    => engine.confidence \in {70, 60}

\* C19 (as stated): the same, and generation fails only when the model call
\* itself fails (network, authentication).
C19_OnlyHardErrorsFail ==
    /\ C19_FormatNeverFails
    /\ (engine.op = "generateEmailResponse" /\ engine.failed) => engine.kind = "error"

\* a reply with malformed JSON was turned into a result
C19_Witness ==
    /\ engine.op = "generateEmailResponse"
    /\ engine.text = <<"{", "er", ",", "}">>
    /\ ~engine.failed
    /\ engine.content = engine.text
    /\ engine.confidence = 60

\* C20: the confidence of every generation result and of every AIResponse
\* row lies in [0, 1] (0..100 hundredths).
C20_ConfidenceInRange ==
    /\ (engine.op = "generateEmailResponse" /\ ~engine.failed)
          => engine.confidence \in 0..100
    /\ \A k \in 1..Len(aiResponses) : aiResponses[k].confidence \in 0..100

\* the Email row i is held by a processing run that has not finished
InRun(i) ==
    \E t \in Tasks : task[t].emailId = i /\ task[t].pc \notin {"idle", "loop", "done"}

\* C21: PROCESSING is transient: no finished processing run leaves its Email
\* in PROCESSING, so an Email in PROCESSING is held by a run still in progress.
C21_ProcessingIsTransient ==
    \A i \in 1..Len(emails) : emails[i].status = "PROCESSING" => InRun(i)

\* C22: when a persistence write fails part-way, no partial record is left:
\* once the run of an Email has finished, an Email with an AIResponse row has
\* status DRAFT_CREATED.
C22_NoPartialRecord ==
    \A k \in 1..Len(aiResponses) :
        LET i == aiResponses[k].emailId IN
        ~InRun(i) => emails[i].status = "DRAFT_CREATED"

\* C23: at most one AIResponse row exists for an upstream message, and every
\* AIResponse row carries the id of a draft that was in the mailbox, for the
\* message of its Email, before the row was written.
C23_ResponseStep ==
    /\ \A k \in 1..Len(aiResponses') :
          LET r == aiResponses'[k] IN
          /\ r.draftId \in 1..Len(drafts)
          /\ drafts[r.draftId] = emails[r.emailId].microsoftId
    /\ \A m \in Messages :
          Cardinality({ k \in 1..Len(aiResponses') :
                          emails[aiResponses'[k].emailId].microsoftId = m }) <= 1
C23_OneResponsePerDraft == [][C23_ResponseStep]_vars

\* the response of m1 is written for the draft created before it, while a
\* second delivery of m1 is in flight
C23_Witness ==
    /\ \E k \in 1..Len(aiResponses) :
          /\ aiResponses[k].draftId = 1
          /\ drafts[1] = "m1"
          /\ emails[aiResponses[k].emailId].status = "PROCESSING"
    /\ \E t \in Tasks : task[t].pc = "saveEmail" /\ task[t].cur.resourceData = "m1"

\* the run of slot t is inside the processing of a notification: a call of
\* processNewEmail is pending
Processing(t) ==
    task[t].pc \in {"fetch", "saveEmail", "updProcessing", "getClient2", "draft",
                    "saveAI", "updDraftCreated", "updError"}

\* C24 (as stated): the notifications of a batch are processed concurrently:
\* while a notification is being processed and the batch has more, the
\* processing of the next one may start.
C24_BatchConcurrency ==
    \A t \in Tasks :
        (Processing(t) /\ task[t].remaining > 0)
            => ENABLED (\E n \in NotificationKinds : TakeNotification(t, n))

\* C24 (amended): the notifications of a batch are processed one after
\* another: the message fetch of a notification is issued only when no call
\* for an earlier notification of the batch is pending.
C24_SequentialStep ==
    \A t \in Tasks :
        (Acts(t) /\ task'[t].pc = "fetch") => (task[t].pc = "loop" /\ ~Processing(t))
C24_BatchIsSequential == [][C24_SequentialStep]_vars

\* the first notification of a batch has finished with its draft and the
\* next one of the batch is about to be taken
C24_Witness ==
    \E t \in Tasks :
        /\ task[t].pc = "loop"
        /\ task[t].remaining > 0
        /\ task[t].log = "draft created"
        /\ \E i \in EmailsOf(task[t].cur.resourceData) : emails[i].status = "DRAFT_CREATED"

\* minutes since midnight of an "HH:MM" string, and of the instant of a date
\* in a time zone
MinutesOf(hhmm) == 60 * DecimalValue(SubSeq(hhmm, 1, 2)) + DecimalValue(SubSeq(hhmm, 4, 5))
MinutesIn(date, zone) ==
    60 * ((date.utcHours + ZoneOffset[zone, date.summer] + 24) % 24) + date.minutes

\* C25: with a start and an end configured, the business-hours check answers
\* 'within' exactly when start <= now < end, now being the time of day in
\* the client's configured time zone and start, end the configured HH:MM.
C25_BusinessHoursWindow ==
    (/\ engine.op = "isWithinBusinessHours"
     /\ engine.businessHours.start # <<>>
     /\ engine.businessHours.end # <<>>)
        => LET now == MinutesIn(engine.date, engine.businessHours.timezone) IN
           engine.within <=> (/\ MinutesOf(engine.businessHours.start) <= now
                              /\ now < MinutesOf(engine.businessHours.end))

\* C26: under any interleaving of deliveries, at most one draft reply is
\* ever created in the mailbox for an upstream message id.
C26_OneDraftPerMessage ==
    \A m \in Messages : Cardinality(DraftsOf(m)) <= 1

\* m1 has its draft and a later delivery of m1 has been turned away
C26_Witness ==
    /\ Cardinality(DraftsOf("m1")) = 1
    /\ \E t \in Tasks :
          /\ task[t].log = "duplicate microsoftId"
          /\ task[t].cur.resourceData = "m1"

\* C27: an Email set to DRAFT_CREATED has an AIResponse row, persisted before
\* the status is set, that carries the id of the draft created for its
\* message; and the draft of an AIResponse row is created before the row is
\* persisted.
C27_OrderStep ==
    /\ \A i \in 1..Len(emails') :
          emails'[i].status = "DRAFT_CREATED"
              => \E k \in 1..Len(aiResponses) :
                     /\ aiResponses[k].emailId = i
                     /\ aiResponses[k].draftId \in DraftsOf(emails'[i].microsoftId)
    /\ \A k \in 1..Len(aiResponses') : aiResponses'[k].draftId \in 1..Len(drafts)
C27_DraftThenResponseThenStatus == [][C27_OrderStep]_vars

\* the Email of m1 is in DRAFT_CREATED, with the response and the draft
C27_Witness ==
    \E i \in EmailsOf("m1") :
        /\ emails[i].status = "DRAFT_CREATED"
        /\ \E k \in ResponsesOf(i) : aiResponses[k].draftId \in DraftsOf("m1")

\* a disconnect of client c has just completed successfully (answer 200)
Disconnected(c) ==
    /\ reply' # reply
    /\ reply'.route = "disconnect"
    /\ reply'.status = 200
    /\ clients'[c] # clients[c]

\* C28: after a successful disconnect the stored credentials of the client
\* can be read back: the lookup by id does not throw, and it shows no usable
\* credential.
C28_LookupStep ==
    \A c \in ClientIds :
        Disconnected(c)
            => /\ ~decryptThrows(clients'[c].accessToken)
               /\ ~decryptThrows(clients'[c].refreshToken)
               /\ decrypt(clients'[c].accessToken) = ""
               /\ decrypt(clients'[c].refreshToken) = ""
C28_LookupAfterDisconnect == [][C28_LookupStep]_vars

\* C29: after a successful disconnect no WebhookSubscription of the client
\* is active, whether or not the remote deletion succeeded.
C29_SubscriptionStep ==
    \A c \in ClientIds :
        Disconnected(c)
            => \A i \in 1..Len(subs') : subs'[i].clientId = c => ~subs'[i].isActive
C29_NoActiveSubscriptionAfterDisconnect == [][C29_SubscriptionStep]_vars

\* the registered clients of the table
Registered == { d \in DOMAIN clients : clients[d].exists }

\* C30: a registration with all required fields creates exactly one new
\* Client and answers 201 whenever no client has the email, whatever the
\* tenant id (given or omitted); with the email taken it answers 409 and
\* creates nothing, as long as the database answers; the emails of the
\* clients stay distinct.
C30_RegistrationStep ==
    /\ \A email \in RequestEmails \ {""}, tenantId \in RequestTenants,
          businessContext \in RequestContexts :
          (/\ RegisterRequest(email, TRUE, tenantId, businessContext, TRUE)
           /\ \E d \in Registered : clients[d].email = email)
              => reply'.status = 409 /\ clients' = clients
    /\ \A i \in 1..Len(inflight) :
          (/\ CreateClientReturn(i, TRUE)
           /\ ~\E d \in Registered : clients[d].email = inflight[i].email)
              => /\ reply'.status = 201
                 /\ \E d \in DOMAIN clients \ Registered :
                       /\ clients'[d].exists
                       /\ clients'[d].email = inflight[i].email
                       /\ \A o \in DOMAIN clients \ {d} : clients'[o] = clients[o]
    /\ \A d, o \in DOMAIN clients :
          (clients'[d].exists /\ clients'[o].exists /\ d # o)
              => clients'[d].email # clients'[o].email
C30_RegistrationCreatesClient == [][C30_RegistrationStep]_vars

====
